---------------------------- MODULE Spec2Model ----------------------------
(***************************************************************************)
(* A model of the free-list allocator of src/src/my_malloc.cpp.            *)
(*                                                                         *)
(* Memory is an array of cells; one cell is one size_t-wide field, so a    *)
(* node_t {size, next} and a header_t {size, magic} are two cells each and *)
(* every size is counted in cells.  Cell values and addresses are machine  *)
(* words: all arithmetic is modulo Modulus, NULL is the word 0 and the     *)
(* arena is mapped at the absolute address Base.  The cells that follow    *)
(* the arena in the address space are mapped or not as the operating       *)
(* system happened to place the mapping (tail); touching an unmapped cell  *)
(* is a segmentation fault.                                                *)
(***************************************************************************)
EXTENDS Integers, Sequences, FiniteSets, TLC

\* ---------------------------------------------------------------- bounds
WordBits   == 6          \* width of a machine word (size_t, pointers)
ARENA_SIZE == 9          \* HEAP_SIZE, in cells
MaxReq     == 3          \* ordinary requests are 0..MaxReq cells
MaxTail    == 2          \* cells that may be mapped right after the arena
MaxLive    == 3          \* at most this many pointers are held by the caller
MaxCalls   == 5          \* calls made in one run

\* ------------------------------------------- constants of my_malloc.h
NodeSize   == 2          \* sizeof(node_t): size, next
HeaderSize == 2          \* sizeof(header_t): size, magic
NULL       == 0

Modulus  == 2 ^ WordBits
Base     == Modulus \div 2                 \* the address mmap returned
MAGIC    == Modulus \div 4 + 3             \* the tag sentinel
SIZE_MAX == Modulus - 1

Val   == 0 .. (Modulus - 1)
Cells == Base .. (Base + ARENA_SIZE + MaxTail - 1)

Add(a, b) == (a + b) % Modulus
Sub(a, b) == (a - b + Modulus) % Modulus

\* The sizes the caller asks for: small ones, one that no arena can hold,
\* and the largest size_t.
Requests == (0 .. MaxReq) \cup {ARENA_SIZE, SIZE_MAX}

VARIABLES
  head,     \* node_t *head
  mem,      \* the cells of the mapping and of what follows it
  lim,      \* first unmapped address after the arena
  status,   \* "running", "aborted" (assert), "segv", "hang" (endless loop)
  live,     \* pointers returned by my_malloc and not yet released: <<p, R>>
  freed,    \* pointers released since the last my_malloc
  calls,    \* number of calls made
  op        \* the last call, its argument, its result, and what it saw

vars == <<head, mem, lim, status, live, freed, calls, op>>

\* ------------------------------------------------------------ the machine
\* A machine state m is [mem, head, lim, st]; st = "ok" while the call runs.
Mapped(m, a) == a >= Base /\ a < m.lim

\* A read that faults yields 0 and leaves st = "segv" (see Touch).
Load(m, a) == IF Mapped(m, a) THEN m.mem[a] ELSE 0

Touch(m, a) ==
  IF m.st = "ok" /\ ~Mapped(m, a) THEN [m EXCEPT !.st = "segv"] ELSE m

Store(m, a, v) ==
  IF m.st # "ok" THEN m
  ELSE IF Mapped(m, a) THEN [m EXCEPT !.mem[a] = v]
  ELSE [m EXCEPT !.st = "segv"]

SizeAt(a) == a                 \* node_t.size, header_t.size
NextAt(a) == Add(a, 1)         \* node_t.next
MagicAt(a) == Add(a, 1)        \* header_t.magic

\* What a fresh anonymous mapping holds: zero pages, and after the arena
\* whatever the neighbouring mapping (if any) holds.
FreshMem(env) ==
  [a \in Cells |->
     IF a >= Base + ARENA_SIZE /\ a < Base + ARENA_SIZE + env.tail
     THEN env.junk ELSE 0]

Env == [tail : 0 .. MaxTail, junk : {0, SIZE_MAX}]

\* Loops run with fuel; a loop that uses it up never ends: a walk that has
\* taken more steps than there are mapped cells is going round a cycle.
Fuel == 2 * (ARENA_SIZE + MaxTail) + 2

\* heap() without the test of line 13: every call maps a new arena.
heap_always_maps(m, env) ==
  LET fresh == [m EXCEPT !.mem = FreshMem(env),
                         !.lim = Base + ARENA_SIZE + env.tail]
      s1 == Store(fresh, SizeAt(Base), Sub(ARENA_SIZE, NodeSize))
      s2 == Store(s1, NextAt(Base), NULL)
  IN [s2 EXCEPT !.head = Base]

\* heap(): lines 12-22
heap(m, env) ==
  IF m.head = NULL
  THEN LET fresh == [m EXCEPT !.mem = FreshMem(env),
                              !.lim = Base + ARENA_SIZE + env.tail]
           s1 == Store(fresh, SizeAt(Base), Sub(ARENA_SIZE, NodeSize))
           s2 == Store(s1, NextAt(Base), NULL)
       IN [s2 EXCEPT !.head = Base]
  ELSE m


\* The loop of find_free with > for >= in line 86.
RECURSIVE find_loop_strict(_, _, _, _, _)
find_loop_strict(m, size, curr, prev, fuel) ==
  IF curr = NULL THEN [m |-> m, found |-> NULL, previous |-> NULL]
  ELSE IF fuel = 0
       THEN [m |-> [m EXCEPT !.st = "hang"], found |-> NULL, previous |-> NULL]
  ELSE IF ~Mapped(m, SizeAt(curr))
       THEN [m |-> Touch(m, SizeAt(curr)), found |-> NULL, previous |-> NULL]
  ELSE IF Add(Load(m, SizeAt(curr)), NodeSize) > Add(size, HeaderSize)
       THEN [m |-> m, found |-> curr, previous |-> prev]
  ELSE IF ~Mapped(m, NextAt(curr))
       THEN [m |-> Touch(m, NextAt(curr)), found |-> NULL, previous |-> NULL]
  ELSE find_loop_strict(m, size, Load(m, NextAt(curr)), curr, fuel - 1)

\* find_free(): lines 82-95.  The loop of lines 85-93, from curr with prev.
RECURSIVE find_loop(_, _, _, _, _)
find_loop(m, size, curr, prev, fuel) ==
  IF curr = NULL THEN [m |-> m, found |-> NULL, previous |-> NULL]
  ELSE IF fuel = 0
       THEN [m |-> [m EXCEPT !.st = "hang"], found |-> NULL, previous |-> NULL]
  ELSE IF ~Mapped(m, SizeAt(curr))
       THEN [m |-> Touch(m, SizeAt(curr)), found |-> NULL, previous |-> NULL]
  ELSE IF Add(Load(m, SizeAt(curr)), NodeSize) >= Add(size, HeaderSize)
       THEN [m |-> m, found |-> curr, previous |-> prev]
  ELSE IF ~Mapped(m, NextAt(curr))
       THEN [m |-> Touch(m, NextAt(curr)), found |-> NULL, previous |-> NULL]
  ELSE find_loop(m, size, Load(m, NextAt(curr)), curr, fuel - 1)

find_free(m, env, size) ==
  LET h == heap(m, env) IN find_loop(h, size, h.head, NULL, Fuel)

\* split() with size for actual_size in line 122: the remainder keeps the
\* cells of the header.
split_forgets_header(m, size, previous, free_block) ==
  LET original    == free_block
      actual_size == Add(size, HeaderSize)
      fb          == Add(original, actual_size)
      m1 == Touch(m, SizeAt(original))
      m2 == Store(m1, SizeAt(fb), Sub(Load(m1, SizeAt(original)), size))
      m3 == Touch(m2, NextAt(original))
      m4 == Store(m3, NextAt(fb), Load(m3, NextAt(original)))
      m5 == IF previous = NULL
            THEN (IF m4.st = "ok" THEN [m4 EXCEPT !.head = fb] ELSE m4)
            ELSE Store(m4, NextAt(previous), fb)
      m6 == Store(m5, SizeAt(original), size)
      m7 == Store(m6, MagicAt(original), MAGIC)
  IN [m |-> m7, allocated |-> original]

\* split() with the subtraction of line 122 stopping at zero.
split_saturating(m, size, previous, free_block) ==
  LET original    == free_block
      actual_size == Add(size, HeaderSize)
      fb          == Add(original, actual_size)
      m1 == Touch(m, SizeAt(original))
      S  == Load(m1, SizeAt(original))
      m2 == Store(m1, SizeAt(fb), IF S < actual_size THEN 0 ELSE S - actual_size)
      m3 == Touch(m2, NextAt(original))
      m4 == Store(m3, NextAt(fb), Load(m3, NextAt(original)))
      m5 == IF previous = NULL
            THEN (IF m4.st = "ok" THEN [m4 EXCEPT !.head = fb] ELSE m4)
            ELSE Store(m4, NextAt(previous), fb)
      m6 == Store(m5, SizeAt(original), size)
      m7 == Store(m6, MagicAt(original), MAGIC)
  IN [m |-> m7, allocated |-> original]

\* split(): lines 112-138, statement by statement.
split(m, size, previous, free_block) ==
  LET original    == free_block
      actual_size == Add(size, HeaderSize)                        \* 119
      fb          == Add(original, actual_size)                   \* 120
      m1 == Touch(m, SizeAt(original))
      m2 == Store(m1, SizeAt(fb),
                  Sub(Load(m1, SizeAt(original)), actual_size))   \* 122
      m3 == Touch(m2, NextAt(original))
      m4 == Store(m3, NextAt(fb), Load(m3, NextAt(original)))     \* 123
      m5 == IF previous = NULL                                    \* 126-132
            THEN (IF m4.st = "ok" THEN [m4 EXCEPT !.head = fb] ELSE m4)
            ELSE Store(m4, NextAt(previous), fb)
      m6 == Store(m5, SizeAt(original), size)                     \* 136
      m7 == Store(m6, MagicAt(original), MAGIC)                   \* 137
  IN [m |-> m7, allocated |-> original]

\* my_malloc(): lines 149-162.
my_malloc(m, env, size) ==
  LET f == find_free(m, env, size) IN
  IF f.m.st # "ok" THEN [m |-> f.m, ret |-> NULL]
  ELSE IF f.found = NULL THEN [m |-> f.m, ret |-> NULL]
  ELSE LET s == split(f.m, size, f.previous, f.found)
       IN [m |-> s.m, ret |-> Add(s.allocated, HeaderSize)]

\* The loop of coalesce without the merge of lines 179-183: it only advances.
RECURSIVE coalesce_loop_never_merges(_, _, _)
coalesce_loop_never_merges(m, temp, fuel) ==
  IF m.st # "ok" \/ temp = NULL THEN m
  ELSE IF fuel = 0 THEN [m EXCEPT !.st = "hang"]
  ELSE IF ~Mapped(m, NextAt(temp)) THEN Touch(m, NextAt(temp))
  ELSE LET nxt == Load(m, NextAt(temp)) IN
       IF nxt = NULL THEN m
       ELSE coalesce_loop_never_merges(m, nxt, fuel - 1)

\* The loop of coalesce without the adjacency test of line 179: it merges
\* every node with its list-successor.
RECURSIVE coalesce_loop_always_merges(_, _, _)
coalesce_loop_always_merges(m, temp, fuel) ==
  IF m.st # "ok" \/ temp = NULL THEN m
  ELSE IF fuel = 0 THEN [m EXCEPT !.st = "hang"]
  ELSE IF ~Mapped(m, NextAt(temp)) THEN Touch(m, NextAt(temp))
  ELSE LET nxt == Load(m, NextAt(temp)) IN
       IF nxt = NULL THEN m
       ELSE LET m1 == Touch(m, SizeAt(nxt))
                m2 == Store(m1, SizeAt(temp),
                        Add(Load(m1, SizeAt(temp)),
                            Add(Load(m1, SizeAt(nxt)), NodeSize)))
                n2 == Load(m2, NextAt(temp))
                m3 == Touch(m2, NextAt(n2))
                m4 == Store(m3, NextAt(temp), Load(m3, NextAt(n2)))
            IN coalesce_loop_always_merges(m4, temp, fuel - 1)

\* coalesce(): lines 172-189.  The loop of lines 176-188, at temp.
RECURSIVE coalesce_loop(_, _, _)
coalesce_loop(m, temp, fuel) ==
  IF m.st # "ok" \/ temp = NULL THEN m
  ELSE IF fuel = 0 THEN [m EXCEPT !.st = "hang"]
  ELSE IF ~Mapped(m, NextAt(temp)) THEN Touch(m, NextAt(temp))
  ELSE LET nxt == Load(m, NextAt(temp)) IN
       IF nxt = NULL THEN m
       ELSE IF ~Mapped(m, SizeAt(temp)) THEN Touch(m, SizeAt(temp))
       ELSE LET block_size == Add(Load(m, SizeAt(temp)), NodeSize)      \* 177
            IN IF Add(temp, block_size) = nxt                           \* 179
               THEN LET m1 == Touch(m, SizeAt(nxt))
                        m2 == Store(m1, SizeAt(temp),                   \* 181
                                Add(Load(m1, SizeAt(temp)),
                                    Add(Load(m1, SizeAt(nxt)), NodeSize)))
                        \* temp->next is read again after the store
                        n2 == Load(m2, NextAt(temp))
                        m3 == Touch(m2, NextAt(n2))
                        m4 == Store(m3, NextAt(temp), Load(m3, NextAt(n2))) \* 182
                    IN coalesce_loop(m4, temp, fuel - 1)
               ELSE coalesce_loop(m, nxt, fuel - 1)                     \* 186

coalesce(m, free_block) == coalesce_loop(m, free_block, Fuel)

\* my_free() without the assert of line 201.
my_free_unchecked(m, allocated) ==
  LET h  == Sub(allocated, HeaderSize)
      m1 == Touch(m, MagicAt(h))
      temp == h
      m2 == Store(m1, SizeAt(temp), Load(m1, SizeAt(h)))
      m3 == Store(m2, NextAt(temp), m2.head)
      m4 == coalesce(m3, temp)
  IN IF m4.st = "ok" THEN [m4 EXCEPT !.head = temp] ELSE m4

\* my_free(): lines 196-211.
my_free(m, allocated) ==
  LET h  == Sub(allocated, HeaderSize)                            \* 199
      m1 == Touch(m, MagicAt(h))
  IN IF m1.st # "ok" THEN m1
     ELSE IF Load(m1, MagicAt(h)) # MAGIC                         \* 201
          THEN [m1 EXCEPT !.st = "aborted"]
     ELSE LET temp == h
              m2 == Store(m1, SizeAt(temp), Load(m1, SizeAt(h)))  \* 205
              m3 == Store(m2, NextAt(temp), m2.head)              \* 206
              m4 == coalesce(m3, temp)                            \* 209
          IN IF m4.st = "ok" THEN [m4 EXCEPT !.head = temp] ELSE m4  \* 210

\* reset_heap() that keeps the old arena.
reset_heap_keeps(m, env) == m

\* reset_heap(): lines 25-31.  munmap, then a new mapping.
reset_heap(m, env) ==
  IF m.head # NULL
  THEN heap([m EXCEPT !.head = NULL, !.lim = Base], env)
  ELSE m

\* free_list(): line 34.
free_list(m) == m.head

\* The loop of lines 40-43 and 51-54: the sum of the sizes and the number
\* of nodes from p on.
RECURSIVE walk(_, _, _, _, _)
walk(m, p, n, count, fuel) ==
  IF p = NULL THEN [m |-> m, n |-> n, count |-> count]
  ELSE IF fuel = 0 THEN [m |-> [m EXCEPT !.st = "hang"], n |-> n, count |-> count]
  ELSE IF ~Mapped(m, SizeAt(p))
       THEN [m |-> Touch(m, SizeAt(p)), n |-> n, count |-> count]
  ELSE IF ~Mapped(m, NextAt(p))
       THEN [m |-> Touch(m, NextAt(p)), n |-> n, count |-> count]
  ELSE walk(m, Load(m, NextAt(p)), Add(n, Load(m, SizeAt(p))), count + 1, fuel - 1)

\* available_memory(): lines 37-45.
available_memory(m, env) ==
  LET h == heap(m, env)
      w == walk(h, h.head, 0, 0, Fuel)
  IN [m |-> w.m, ret |-> w.n]

\* number_of_free_nodes(): lines 48-56.
number_of_free_nodes(m, env) ==
  LET h == heap(m, env)
      w == walk(h, h.head, 0, 0, Fuel)
  IN [m |-> w.m, ret |-> w.count]


\* ------------------------------------------------------------ the program
Mach == [mem |-> mem, head |-> head, lim |-> lim, st |-> "ok"]

\* The environment is consulted only when heap() maps the arena.
Envs(m) == IF m.head = NULL THEN Env ELSE {[tail |-> 0, junk |-> 0]}
AnyEnv  == [tail |-> 0, junk |-> 0]

\* The free list as the diagnostics see it (heap() first, then the walk).
AvailNow == available_memory(Mach, AnyEnv)
NodesNow == number_of_free_nodes(Mach, AnyEnv)

Ptrs(l) == {l[i][1] : i \in 1 .. Len(l)}

RECURSIVE Remove(_, _)
Remove(l, p) ==
  IF l = <<>> THEN <<>>
  ELSE IF Head(l)[1] = p THEN Tail(l)
  ELSE <<Head(l)>> \o Remove(Tail(l), p)

Status(m) == IF m.st = "ok" THEN "running" ELSE m.st

\* What the caller knows of a call, and what the diagnostics would have told
\* just before it: available_memory() (before my_malloc and reset_heap),
\* free_list() after heap() (before my_malloc and my_free) and, for my_free,
\* the size field of the header it is given.
Call(name, arg, ret) ==
  [name |-> name, arg |-> arg, ret |-> ret,
   avail0 |-> IF name \in {"malloc", "reset_heap"} THEN AvailNow.ret ELSE 0,
   head0  |-> IF name \in {"malloc", "free"} THEN heap(Mach, AnyEnv).head ELSE NULL,
   size0  |-> IF name = "free"
              THEN Load(Mach, SizeAt(Sub(arg, HeaderSize))) ELSE 0]

Init ==
  /\ head = NULL
  /\ mem = [a \in Cells |-> 0]
  /\ lim = Base
  /\ status = "running"
  /\ live = <<>>
  /\ freed = {}
  /\ calls = 0
  /\ op = Call("init", 0, 0)

Commit(m) ==
  /\ calls < MaxCalls
  /\ calls' = calls + 1
  /\ head' = m.head
  /\ mem' = m.mem
  /\ lim' = m.lim
  /\ status' = Status(m)

Malloc ==
  /\ status = "running"
  /\ Len(live) < MaxLive
  /\ \E size \in Requests : \E env \in Envs(Mach) :
       LET r == my_malloc(Mach, env, size) IN
       /\ Commit(r.m)
       /\ live' = IF r.m.st = "ok" /\ r.ret # NULL
                  THEN Append(live, <<r.ret, size>>) ELSE live
       /\ freed' = IF r.m.st = "ok" /\ r.ret # NULL THEN {} ELSE freed
       /\ op' = Call("malloc", size, r.ret)

Free ==
  /\ status = "running"
  /\ \E p \in Ptrs(live) \cup freed :
       LET m == my_free(Mach, p) IN
       /\ Commit(m)
       /\ live' = IF m.st = "ok" THEN Remove(live, p) ELSE live
       /\ freed' = IF m.st = "ok" /\ p \notin Ptrs(Remove(live, p))
                   THEN freed \cup {p} ELSE freed
       /\ op' = Call("free", p, 0)

ResetHeap ==
  /\ status = "running"
  /\ \E env \in Env :
       LET m == reset_heap(Mach, env) IN
       /\ Commit(m)
       /\ live' = IF head # NULL THEN <<>> ELSE live
       /\ freed' = IF head # NULL THEN {} ELSE freed
       /\ op' = Call("reset_heap", 0, 0)

AvailableMemory ==
  /\ status = "running"
  /\ \E env \in Envs(Mach) :
       LET r == available_memory(Mach, env) IN
       /\ Commit(r.m)
       /\ UNCHANGED <<live, freed>>
       /\ op' = Call("available_memory", 0, r.ret)

NumberOfFreeNodes ==
  /\ status = "running"
  /\ \E env \in Envs(Mach) :
       LET r == number_of_free_nodes(Mach, env) IN
       /\ Commit(r.m)
       /\ UNCHANGED <<live, freed>>
       /\ op' = Call("number_of_free_nodes", 0, r.ret)

Next == Malloc \/ Free \/ ResetHeap \/ AvailableMemory \/ NumberOfFreeNodes

Spec == Init /\ [][Next]_vars


\* ------------------------------------------------------------- vocabulary
\* The machine the next call starts from, the arena mapped if it was not.
Now == heap(Mach, AnyEnv)

\* The addresses of the free-list entries, in list order.
RECURSIVE ListFrom(_, _, _)
ListFrom(m, p, fuel) ==
  IF p = NULL \/ fuel = 0 \/ ~Mapped(m, SizeAt(p)) \/ ~Mapped(m, NextAt(p))
  THEN <<>>
  ELSE <<p>> \o ListFrom(m, Load(m, NextAt(p)), fuel - 1)

FreeList(m) == ListFrom(m, m.head, Fuel)

\* The list ends in NULL and every entry can be read.
ListOk(m) == walk(m, m.head, 0, 0, Fuel).m.st = "ok"

\* A block is <<first cell, number of cells>>, in unbounded integers.
LiveBlocks == {<<live[i][1] - HeaderSize, live[i][2] + HeaderSize>> :
                 i \in 1 .. Len(live)}
FreeBlocks(m) == {<<FreeList(m)[i], Load(m, SizeAt(FreeList(m)[i])) + NodeSize>> :
                    i \in 1 .. Len(FreeList(m))}

Disjoint(a, la, b, lb) == la = 0 \/ lb = 0 \/ a + la <= b \/ b + lb <= a
InArena(a, la) == a >= Base /\ a + la <= Base + ARENA_SIZE

RECURSIVE SumLen(_)
SumLen(S) == IF S = {} THEN 0
             ELSE LET b == CHOOSE x \in S : TRUE IN b[2] + SumLen(S \ {b})

\* ------------------------------------------------------------------ claims

\* C1: no two live pointers have overlapping payload regions [p, p+R), and
\* every live payload lies inside the arena.
C1_LivePayloadsDisjoint ==
  /\ \A i, j \in 1 .. Len(live) :
       i < j => Disjoint(live[i][1], live[i][2], live[j][1], live[j][2])
  /\ \A i \in 1 .. Len(live) : InArena(live[i][1], live[i][2])

\* C2: once the arena is initialized, the free-list entries and the live
\* blocks partition it: none overlaps another, each lies in the arena, and
\* their sizes plus overheads add up to ARENA_SIZE.
C2_BlocksPartitionArena ==
  (status = "running" /\ head # NULL) =>
    LET B == LiveBlocks \cup FreeBlocks(Mach) IN
    /\ ListOk(Mach)
    /\ Cardinality(B) = Len(live) + Len(FreeList(Mach))
    /\ \A b \in B : InArena(b[1], b[2])
    /\ \A b, c \in B : b # c => (b[1] + b[2] <= c[1] \/ c[1] + c[2] <= b[1])
    /\ SumLen(B) = ARENA_SIZE

\* C3: a call never changes a cell of the payload of a pointer that is live
\* before the call and still live after it.
PayloadKept(i) ==
  \A a \in Cells :
    (a >= live[i][1] /\ a < live[i][1] + live[i][2]) => mem'[a] = mem[a]

C3_LivePayloadUntouched ==
  [][\A i \in 1 .. Len(live) :
       (\E j \in 1 .. Len(live') : live'[j] = live[i]) => PayloadKept(i)]_vars


\* A my_free of the pointer that the call just before it, a my_malloc,
\* returned; both calls return.
FreeRightAfterMalloc ==
  /\ op.name = "malloc" /\ op.ret # NULL /\ status = "running"
  /\ op'.name = "free" /\ op'.arg = op.ret /\ status' = "running"

\* C4: after a successful allocate(R) followed immediately by the release
\* of its pointer, available_memory() is no less than before the allocate.
C4_AvailableNotLess ==
  [][FreeRightAfterMalloc =>
       (AvailNow'.m.st = "ok" /\ AvailNow'.ret >= op.avail0)]_vars

\* C4 as amended: when the allocate took the head of the free list, the
\* release that follows restores available_memory() exactly.
C4_AvailableRestoredAtHead ==
  [][(FreeRightAfterMalloc /\ op.ret = Add(op.head0, HeaderSize)) =>
       (AvailNow'.m.st = "ok" /\ AvailNow'.ret = op.avail0)]_vars


\* The free-list entries my_malloc sees (heap() first), and their sizes.
List0 == FreeList(Now)
Size0(n) == Load(Now, SizeAt(n))

\* A my_malloc call that returned.
MallocReturns == op'.name = "malloc" /\ status' = "running"

\* C5: allocate(R) returns null whenever R + header_overhead exceeds
\* S + descriptor_overhead for every block S of the free list; a non-null
\* result lies in a block with S + descriptor_overhead >= R + header_overhead;
\* the arena is never grown.
C5_NullWhenNothingFits ==
  [][MallocReturns =>
       LET R == op'.arg IN
       /\ (\A i \in 1 .. Len(List0) :
             R + HeaderSize > Size0(List0[i]) + NodeSize) => op'.ret = NULL
       /\ op'.ret # NULL =>
            \E i \in 1 .. Len(List0) :
              /\ op'.ret = List0[i] + HeaderSize
              /\ Size0(List0[i]) + NodeSize >= R + HeaderSize
       /\ head # NULL => lim' = lim]_vars

\* C6: when allocate(R) returns null no state is changed, also when the
\* call is the first use of the allocator.
C6_NullChangesNothing ==
  [][(MallocReturns /\ op'.ret = NULL) =>
       (head' = head /\ mem' = mem /\ lim' = lim)]_vars

\* C6 as amended: when allocate(R) returns null and the arena was already
\* initialized, nothing changes; on first use the only change is that the
\* arena is mapped and holds its single block.
C6_NullLeavesHeapAsPresented ==
  [][(MallocReturns /\ op'.ret = NULL) =>
       /\ head # NULL => (head' = head /\ mem' = mem /\ lim' = lim)
       /\ head = NULL =>
            /\ head' = Base
            /\ mem'[SizeAt(Base)] = ARENA_SIZE - NodeSize
            /\ mem'[NextAt(Base)] = NULL
            /\ \A a \in Cells : (a >= Base + NodeSize /\ a < Base + ARENA_SIZE)
                                   => mem'[a] = 0]_vars

\* An allocate returned null on an arena that an earlier call had set up.
C6_Witness ==
  /\ op.name = "malloc" /\ op.ret = NULL /\ status = "running"
  /\ calls >= 2 /\ Len(live) >= 1


\* The header my_free is given can be read and its tag is not the sentinel.
BadTag(p) ==
  LET h == Sub(p, HeaderSize)
  IN Mapped(Mach, MagicAt(h)) /\ Load(Mach, MagicAt(h)) # MAGIC

\* C7: release(p) on a header whose tag is not the sentinel aborts the
\* process before any write: head and every cell are as before.
C7_BadTagAbortsUnchanged ==
  [][(op'.name = "free" /\ BadTag(op'.arg)) =>
       (status' = "aborted" /\ head' = head /\ mem' = mem /\ live' = live)]_vars

\* A release was refused by the tag check.
C7_Witness == op.name = "free" /\ status = "aborted"

\* The fit test of line 86, as the machine computes it.
Fits(n, R) == Add(Size0(n), NodeSize) >= Add(R, HeaderSize)

C9_ResetRestoresArena ==
  (op.name = "reset_heap" /\ status = "running") =>
    /\ AvailNow.m.st = "ok" /\ AvailNow.ret = ARENA_SIZE - NodeSize
    /\ NodesNow.m.st = "ok" /\ NodesNow.ret = 1

\* reset_heap() was called on an arena with live allocations in it.
C9_Witness ==
  /\ op.name = "reset_heap" /\ status = "running"
  /\ op.avail0 # ARENA_SIZE - NodeSize

\* The block my_free(p) is given ends where the head of the free list starts.
AdjacentToHead(p) ==
  /\ head # NULL
  /\ Mapped(Mach, SizeAt(Sub(p, HeaderSize)))
  /\ Add(p, Load(Mach, SizeAt(Sub(p, HeaderSize)))) = head

\* C10: a successful release(p) of a block that is physically adjacent to
\* the head of the free list does not increase number_of_free_nodes().
C10_AdjacentReleaseNoMoreNodes ==
  [][(op'.name = "free" /\ status' = "running" /\ AdjacentToHead(op'.arg)
        /\ NodesNow.m.st = "ok") =>
       (NodesNow'.m.st = "ok" /\ NodesNow'.ret <= NodesNow.ret)]_vars

\* A release of a block adjacent to the head of the list returned.
C10_Witness ==
  /\ op.name = "free" /\ status = "running"
  /\ op.head0 # NULL /\ Add(op.arg, op.size0) = op.head0

\* ------------------------------------------- allocate, then release, runs
\* A run of the program that only allocates on a fresh arena and then only
\* releases.  op carries, besides the last call, the run so far:
\*   log   the calls made, <<name, argument, result>> each;
\*   fits  every my_malloc so far returned a pointer and left a remainder
\*         that is not negative: size + sizeof(header_t) <= the size of the
\*         block it took, in plain integers;
\*   rev   every my_free so far was given the youngest live pointer.
RunInit ==
  /\ head = NULL
  /\ mem = [a \in Cells |-> 0]
  /\ lim = Base
  /\ status = "running"
  /\ live = <<>>
  /\ freed = {}
  /\ calls = 0
  /\ op = Call("init", 0, 0) @@ [log |-> <<>>, fits |-> TRUE, rev |-> TRUE]

RunMalloc ==
  /\ status = "running"
  /\ freed = {} /\ Len(live) = calls /\ Len(live) < MaxLive
  /\ \E size \in Requests : \E env \in Envs(Mach) :
       LET r  == my_malloc(Mach, env, size)
           ok == r.m.st = "ok" /\ r.ret # NULL
           S  == Load(heap(Mach, env), SizeAt(Sub(r.ret, HeaderSize)))
       IN
       /\ head' = r.m.head /\ mem' = r.m.mem /\ lim' = r.m.lim
       /\ status' = Status(r.m)
       /\ calls' = calls + 1
       /\ live' = IF ok THEN Append(live, <<r.ret, size>>) ELSE live
       /\ freed' = freed
       /\ op' = Call("malloc", size, r.ret) @@
                [log  |-> Append(op.log, <<"malloc", size, r.ret>>),
                 fits |-> op.fits /\ ok /\ size + HeaderSize <= S,
                 rev  |-> op.rev]

RunFree ==
  /\ status = "running"
  /\ \E i \in 1 .. Len(live) :
       LET p == live[i][1]
           m == my_free(Mach, p)
       IN
       /\ head' = m.head /\ mem' = m.mem /\ lim' = m.lim
       /\ status' = Status(m)
       /\ calls' = calls + 1
       /\ live' = IF m.st = "ok" THEN Remove(live, p) ELSE live
       /\ freed' = IF m.st = "ok" THEN freed \cup {p} ELSE freed
       /\ op' = Call("free", p, 0) @@
                [log  |-> Append(op.log, <<"free", p, 0>>),
                 fits |-> op.fits,
                 rev  |-> op.rev /\ i = Len(live)]

RunNext == RunMalloc \/ RunFree

RunSpec == RunInit /\ [][RunNext]_vars

\* The run so far is: a = my_malloc(r1); b = my_malloc(r2); my_free(a);
\* my_free(b), on a fresh arena, every call returning.
TwoThenInOrder(r1, r2) ==
  /\ status = "running"
  /\ Len(op.log) = 4
  /\ op.log[1][1] = "malloc" /\ op.log[1][2] = r1 /\ op.log[1][3] # NULL
  /\ op.log[2][1] = "malloc" /\ op.log[2][2] = r2 /\ op.log[2][3] # NULL
  /\ op.log[3] = <<"free", op.log[1][3], 0>>
  /\ op.log[4] = <<"free", op.log[2][3], 0>>
  /\ live = <<>>

\* C11 (as written): on a fresh arena, allocate(100), allocate(200), release
\* of the first and then of the second leaves one free-list entry and
\* available_memory() = ARENA_SIZE - 2H; the requests are 1 and 2 cells here.
C11_InOrderReleaseMerges ==
  TwoThenInOrder(1, 2) =>
    /\ NodesNow.ret = 1
    /\ AvailNow.ret = ARENA_SIZE - 2 * HeaderSize

\* C11 as amended: two allocations that both leave a remainder, released in
\* the order of allocation, leave three free-list entries (second, first,
\* remainder: none starts where its list-predecessor ends, so nothing is
\* merged) and available_memory() = ARENA_SIZE - 3H.
C11_InOrderReleaseKeepsThree ==
  \A r1, r2 \in 1 .. MaxReq :
    (TwoThenInOrder(r1, r2) /\ op.fits) =>
      /\ NodesNow.m.st = "ok" /\ NodesNow.ret = 3
      /\ AvailNow.m.st = "ok" /\ AvailNow.ret = ARENA_SIZE - 3 * HeaderSize
      /\ FreeList(Mach) = <<Sub(op.log[2][3], HeaderSize),
                            Sub(op.log[1][3], HeaderSize),
                            Add(op.log[2][3], r2)>>

\* The run of the claim was made: requests of 1 and 2 cells, released in
\* the order of allocation.
C11_Witness == TwoThenInOrder(1, 2) /\ op.fits

\* A my_malloc call that returned a pointer; the block it took, that
\* block's size field before the call, and where split put the remainder.
MallocSucceeds == MallocReturns /\ op'.ret # NULL
Found == Sub(op'.ret, HeaderSize)
FoundSize == Size0(Found)
Remainder == Add(Found, Add(op'.arg, HeaderSize))

\* C12 (as written): when split is given a block whose size field equals
\* actual_size exactly (S = R + header_overhead), the remainder's size field
\* is a very large value and not zero.
C12_EqualSizeUnderflows ==
  [][(MallocSucceeds /\ FoundSize = op'.arg + HeaderSize) =>
       mem'[Remainder] # 0]_vars

\* C12 as amended: when S = R + header_overhead the remainder's size field
\* is zero; the subtraction underflows when R <= S < R + header_overhead
\* (blocks the fit test of line 86 still admits; R + header_overhead itself
\* not wrapping), and the size field is then 2^w - (R + header_overhead - S).
C12_UnderflowBelowActualSize ==
  [][MallocSucceeds =>
       LET R == op'.arg
           S == FoundSize
       IN /\ S = R + HeaderSize => mem'[Remainder] = 0
          /\ (R <= S /\ S < R + HeaderSize /\ R + HeaderSize < Modulus) =>
               mem'[Remainder] = Modulus - (R + HeaderSize - S)]_vars

\* An allocate took the only free block, whose size was R + header_overhead,
\* and left a remainder of size zero as the only entry of the list.
C12_Witness ==
  /\ op.name = "malloc" /\ op.ret # NULL /\ status = "running"
  /\ op.head0 = Sub(op.ret, HeaderSize)
  /\ op.avail0 = op.arg + HeaderSize
  /\ NodesNow.ret = 1 /\ head = Add(op.ret, op.arg)
  /\ mem[SizeAt(head)] = 0

\* my_malloc chose a block whose capacity is the requested footprint
\* exactly: S + sizeof(node_t) = R + sizeof(header_t), in plain integers.
TakesExactCapacity ==
  /\ op'.name = "malloc" /\ op'.ret # NULL
  /\ FoundSize + NodeSize = op'.arg + HeaderSize

\* The free list of the state after the call, as far as it can be read.
ListAfter == ListFrom(Mach', head', Fuel)
InListAfter(n) == \E i \in 1 .. Len(ListAfter) : ListAfter[i] = n

\* C13 (as written): when allocate(R) selects a free block with
\* S + descriptor_overhead = R + header_overhead, the free list afterwards
\* contains a free block whose size exceeds ARENA_SIZE (the wrapped
\* remainder).
C13_ExactCapacityLeavesHugeBlock ==
  [][TakesExactCapacity =>
       /\ status' = "running"
       /\ InListAfter(Remainder)
       /\ mem'[Remainder] > ARENA_SIZE]_vars

\* C13 as amended: the remainder descriptor of such a call is written where
\* the found block ends.  If that is past the mapped memory the process is
\* killed by the write; otherwise the call returns, the free list contains
\* the remainder, and (R + header_overhead not wrapping) its size field is
\* 2^w - header_overhead, which exceeds ARENA_SIZE.
C13_ExactCapacityWritesPastBlock ==
  [][TakesExactCapacity =>
       /\ Remainder = Add(Found, Add(FoundSize, NodeSize))
       /\ IF Mapped(Mach', SizeAt(Remainder)) /\ Mapped(Mach', NextAt(Remainder))
          THEN /\ status' = "running"
               /\ InListAfter(Remainder)
               /\ op'.arg + HeaderSize < Modulus =>
                    /\ mem'[Remainder] = Modulus - HeaderSize
                    /\ mem'[Remainder] > ARENA_SIZE
          ELSE status' = "segv"]_vars

\* Every call so far was an allocate that returned a pointer, the last one
\* took the whole capacity of the only free block, and the list now starts
\* with a block of size 2^w - header_overhead.
C13_Witness ==
  /\ op.name = "malloc" /\ op.ret # NULL /\ status = "running"
  /\ calls = Len(live)
  /\ op.head0 = Sub(op.ret, HeaderSize) /\ op.avail0 = op.arg
  /\ head = Add(op.ret, op.arg)
  /\ mem[SizeAt(head)] = Modulus - HeaderSize

\* The position of the found block in the list my_malloc searched, its
\* list-predecessor (NULL for the head) and its next field before the call.
FoundAt == CHOOSE i \in 1 .. Len(List0) : List0[i] = Found
FoundPrev == IF FoundAt = 1 THEN NULL ELSE List0[FoundAt - 1]
Next0(n) == Load(Now, NextAt(n))

\* C14: a successful allocate(R) on found block F with predecessor P writes
\* the remainder at F + R + header_overhead with size F.size - (R +
\* header_overhead), as the machine computes it, and next = F.next; the
\* remainder takes F's place in the list (new head if F was the head, else
\* P.next and the head unchanged); every other entry keeps its address, its
\* size, its next and its position.
C14_SplitFrame ==
  [][MallocSucceeds =>
       /\ mem'[SizeAt(Remainder)] = Sub(FoundSize, Add(op'.arg, HeaderSize))
       /\ mem'[NextAt(Remainder)] = Next0(Found)
       /\ IF FoundPrev = NULL
          THEN head' = Remainder
          ELSE head' = Now.head /\ mem'[NextAt(FoundPrev)] = Remainder
       /\ Len(ListAfter) = Len(List0)
       /\ \A j \in 1 .. Len(List0) :
            IF j = FoundAt THEN ListAfter[j] = Remainder
            ELSE /\ ListAfter[j] = List0[j]
                 /\ mem'[SizeAt(List0[j])] = Size0(List0[j])
                 /\ (j # FoundAt - 1) =>
                      mem'[NextAt(List0[j])] = Next0(List0[j])]_vars

\* A my_free call that returned, and the size the caller asked for when it
\* allocated the pointer.
FreeReturns == op'.name = "free" /\ status' = "running"
Requested(p) == live[CHOOSE i \in 1 .. Len(live) : live[i][1] = p][2]

\* Entry n of the old list starts inside the block at the head of the new
\* list.
AbsorbedByHead(n) ==
  n > head' /\ n < head' + NodeSize + mem'[SizeAt(head')]

\* C15: after every successful release(p) the head of the free list is
\* p - header_overhead, its size is at least the R that p was allocated
\* with, and every block that was on the list is still reachable from the
\* head or was absorbed into the head block.
C15_ReleasedBlockIsHead ==
  [][(FreeReturns /\ op'.arg \in Ptrs(live)) =>
       /\ head' = Sub(op'.arg, HeaderSize)
       /\ mem'[SizeAt(head')] >= Requested(op'.arg)
       /\ \A i \in 1 .. Len(List0) :
            InListAfter(List0[i]) \/ AbsorbedByHead(List0[i])]_vars

\* The machine at line 209 of my_free(p), where coalesce starts: the block
\* of p is linked before the old head (lines 205-206).
AtCoalesce(p) ==
  LET temp == Sub(p, HeaderSize)
      m2 == Store(Mach, SizeAt(temp), Load(Mach, SizeAt(temp)))
  IN Store(m2, NextAt(temp), head)

\* The entries of a list as <<address, size>> pairs.
Pairs(m, l) == [i \in 1 .. Len(l) |-> <<l[i], Load(m, SizeAt(l[i]))>>]

\* What the contract of the Coalescer makes of a list of pairs: the first
\* entry absorbs its successor while the successor starts at its end, then
\* the same for the entries after it.
RECURSIVE Merged(_)
Merged(l) ==
  IF Len(l) < 2 THEN l
  ELSE IF Add(l[1][1], Add(l[1][2], NodeSize)) = l[2][1]
       THEN Merged(<<<<l[1][1], Add(l[1][2], Add(l[2][2], NodeSize))>>>>
                   \o Tail(Tail(l)))
       ELSE <<l[1]>> \o Merged(Tail(l))

RECURSIVE Total(_)
Total(l) == IF l = <<>> THEN 0 ELSE l[1][2] + NodeSize + Total(Tail(l))

\* C16: the Coalescer merges a node with its list-successor only when the
\* node's end (address + descriptor_overhead + size) is the successor's
\* address, adding the successor's size plus descriptor_overhead and
\* splicing it out; when it returns no node reachable from the start has a
\* list-successor beginning at its end, and the total of size +
\* descriptor_overhead over the list from the start is unchanged.
C16_CoalesceMergesAdjacent ==
  [][FreeReturns =>
       LET pre    == AtCoalesce(op'.arg)
           before == Pairs(pre, ListFrom(pre, Sub(op'.arg, HeaderSize), Fuel))
           after  == Pairs(Mach', ListAfter)
       IN /\ after = Merged(before)
          /\ \A i \in 1 .. (Len(after) - 1) :
               Add(after[i][1], Add(after[i][2], NodeSize)) # after[i + 1][1]
          /\ Total(after) = Total(before)]_vars

\* No address occurs twice in the sequence.
NoRepeat(l) == \A i, j \in 1 .. Len(l) : i # j => l[i] # l[j]

\* C17: in every reachable state the free list reachable from the head is
\* finite and acyclic, and every node lies inside the arena, so that the
\* traversals of the list terminate.
C17_ListFiniteAcyclicInArena ==
  (status = "running" /\ head # NULL) =>
    /\ ListOk(Mach)
    /\ NoRepeat(FreeList(Mach))
    /\ \A i \in 1 .. Len(FreeList(Mach)) : InArena(FreeList(Mach)[i], NodeSize)

\* C18: from a fresh arena, after allocations that all returned a pointer
\* and left a non-negative remainder, releasing every pointer youngest
\* first leaves a single free block: number_of_free_nodes() = 1 and
\* available_memory() = ARENA_SIZE - descriptor_overhead.
C18_ReverseReleaseRestores ==
  (status = "running" /\ op.fits /\ op.rev /\ Len(op.log) > 0 /\ live = <<>>) =>
    /\ NodesNow.m.st = "ok" /\ NodesNow.ret = 1
    /\ AvailNow.m.st = "ok" /\ AvailNow.ret = ARENA_SIZE - NodeSize

\* MaxLive allocations were made and all of them released, youngest first.
C18_Witness ==
  /\ status = "running" /\ op.fits /\ op.rev /\ live = <<>>
  /\ Len(op.log) = 2 * MaxLive

\* C19: in every reachable state the header before each live pointer holds
\* the sentinel as its tag and the requested R as its size.
C19_LiveHeadersIntact ==
  status = "running" =>
    \A i \in 1 .. Len(live) :
      LET h == Sub(live[i][1], HeaderSize) IN
      /\ mem[SizeAt(h)] = live[i][2]
      /\ mem[MagicAt(h)] = MAGIC

\* C20: a pointer that was released, with no allocate since, has a header
\* whose tag is not the sentinel, also when its block was absorbed by
\* coalescing; releasing it again aborts on the tag check and changes
\* nothing.
C20_DoubleReleaseAborts ==
  [][/\ \A p \in freed' : mem'[MagicAt(Sub(p, HeaderSize))] # MAGIC
     /\ (op'.name = "free" /\ op'.arg \in freed) =>
          (status' = "aborted" /\ head' = head /\ mem' = mem)]_vars

\* A second release of a pointer was refused, after the block of the
\* pointer had been absorbed into another free block: it is not an entry of
\* the free list any more.
C20_Witness ==
  /\ op.name = "free" /\ status = "aborted" /\ op.arg \in freed
  /\ \A i \in 1 .. Len(FreeList(Mach)) :
       FreeList(Mach)[i] # Sub(op.arg, HeaderSize)

=============================================================================
